---- MODULE Spec2Model ----
(***************************************************************************)
(* Model of the request approval workflow of src/app.py: the tables        *)
(* users, department_approvers, requests, request_approvals and            *)
(* workflow_flow_display, and the HTTP handlers create_request,            *)
(* approve_request, create_department_approver, delete_department_approver *)
(* and create_user that read and write them; and of its document workflow: *)
(* the tables documents, workflow_steps and approvals, and the handlers    *)
(* new_document, approve_document and archive_document.                    *)
(*                                                                         *)
(* Every HTTP request is served by its own worker with its own database    *)
(* session.  A handler is one action per database transaction it commits:  *)
(* what a worker read before a commit of another worker is kept in the     *)
(* worker's local state, as the ORM keeps it in the loaded objects.        *)
(***************************************************************************)
EXTENDS Integers, Sequences, FiniteSets, TLC

(***************************************************************************)
(* Bounds of the model.                                                    *)
(***************************************************************************)
\* workers serving HTTP requests at the same time
NumWorkers == 2
\* rows of the requests table
MaxRequests == 1
\* approve_request calls admitted per request
MaxActions == 2
\* rows of the department_approvers table
MaxMappings == 3
\* rows of the documents table
MaxDocuments == 1
\* approve_document calls admitted per document
MaxDocumentActions == 4

(***************************************************************************)
(* The data the handlers are called with.                                  *)
(***************************************************************************)
Workers == 1..NumWorkers

\* the accounts of setup_approval_workflow.py and init_db, by username
Usernames == {"admin", "general_approver", "it_manager", "hr_manager", "employee1"}

\* User.role of each account
Role(u) ==
  IF u = "admin" THEN "admin"
  ELSE IF u \in {"employee1", "user1"} THEN "user"
  ELSE "approver"

Departments == {"IT", "HR"}

\* a missing or empty field of the posted JSON
Empty == ""

\* the actions approve_request is posted with
Actions == {"approve", "reject"}

\* the actions approve_document is posted with
DocumentActions == {"approve", "reject", "comment"}

\* the accounts that submit requests
Submitters == {"employee1"}

\* the accounts an admin assigns as department approver
ApproverCandidates == {"it_manager", "hr_manager"}

\* the accounts that call the admin pages: the admin and one who is denied
AdminCallers == {"admin", "employee1"}

\* the usernames create_user is posted with
NewUsernames == {"general_approver"}

\* a NULL foreign key
Null == "null"

\* the accounts in the order of their ids: the order in which
\* setup_approval_workflow.py creates them, then the account create_user adds
UserIds == <<"admin", "hr_manager", "it_manager", "employee1", "general_approver">>

\* an entry of the workflow_steps list create_workflow_request is posted with
WorkflowStepData(department, stepNumber) ==
  [department |-> department, stepNumber |-> stepNumber]

\* the workflow_steps lists create_workflow_request is posted with
WorkflowStepLists ==
  { << >>,
    << WorkflowStepData("General Approver", 1), WorkflowStepData("Admin", 2) >>,
    << WorkflowStepData("General Approver", 1), WorkflowStepData("IT", 2),
       WorkflowStepData("Admin", 3) >>,
    << WorkflowStepData("IT", 1), WorkflowStepData("Admin", 2) >>,
    << WorkflowStepData("IT", 1), WorkflowStepData("HR", 2),
       WorkflowStepData("Admin", 3) >> }

VARIABLES
  users,                 \* usernames of the rows of the users table
  department_approvers,  \* rows of department_approvers, by id
  requests,              \* rows of requests, a function of the existing ids
  request_approvals,     \* rows of request_approvals, in insertion order
  workflow_flow_display, \* rows of workflow_flow_display, in insertion order
  documents,             \* rows of documents, by id
  workflow_steps,        \* rows of workflow_steps, by id
  approvals,             \* rows of approvals, in insertion order
  pc,                    \* what each worker is doing
  local,                 \* what each worker's handler has read so far
  response               \* status and message of the response sent last

vars == <<users, department_approvers, requests, request_approvals,
          workflow_flow_display, documents, workflow_steps, approvals,
          pc, local, response>>

\* the tables of the document workflow
document_tables == <<documents, workflow_steps, approvals>>

tables == <<users, department_approvers, requests, request_approvals,
            workflow_flow_display, document_tables>>

(***************************************************************************)
(* Queries.                                                                *)
(***************************************************************************)
Min(S) == CHOOSE x \in S : \A y \in S : x <= y

\* Query.filter_by(...).first(): the id of the first of the rows that pass the
\* filter, 0 for None
First(hits) == IF hits = {} THEN 0 ELSE Min(hits)

\* the ids of the rows of a table
Ids(rows) == 1..Len(rows)

\* faulty variant: the lookup without is_active=True
DepartmentApproverIgnoringActive(department) ==
  First({i \in Ids(department_approvers) :
           department_approvers[i].department = department})

\* DepartmentApprover.query.filter_by(department=department, is_active=True).first()
ActiveDepartmentApprover(department) ==
  First({i \in Ids(department_approvers) :
           /\ department_approvers[i].department = department
           /\ department_approvers[i].is_active})

\* faulty variant: the lookup without is_active=True
MappingOfIgnoringActive(u, department) ==
  First({i \in Ids(department_approvers) :
           /\ department_approvers[i].approver_id = u
           /\ department_approvers[i].department = department})

\* DepartmentApprover.query.filter_by(approver_id=u, department=department,
\*                                    is_active=True).first()
ActiveMappingOf(u, department) ==
  First({i \in Ids(department_approvers) :
           /\ department_approvers[i].approver_id = u
           /\ department_approvers[i].department = department
           /\ department_approvers[i].is_active})

\* User.query.filter_by(username='general_approver').first()
GeneralApprover ==
  IF "general_approver" \in users THEN "general_approver" ELSE Null

\* User.query.filter_by(role='admin').first()
AdminApprover ==
  IF \E u \in users : Role(u) = "admin"
  THEN CHOOSE u \in users : Role(u) = "admin"
  ELSE Null

\* f'{department} Department Approver'
DepartmentStepName(department) == department \o " Department Approver"

\* a worker that holds nothing
NoLocal ==
  [rid |-> 0, actor |-> Null, action |-> Null, level |-> Null,
   status |-> Null, department_approver_id |-> Null,
   mapping |-> 0, department |-> Null, document_id |-> 0, workflow_step |-> 0,
   workflow_steps |-> << >>]

(***************************************************************************)
(* Initial state: the database after setup_approval_workflow.py, which     *)
(* creates the admin, the department managers and the employees, but no    *)
(* general_approver account, and one active mapping per department.        *)
(***************************************************************************)
Init ==
  /\ users = Usernames \ {"general_approver"}
  /\ department_approvers =
       << [department |-> "HR", approver_id |-> "hr_manager", is_active |-> TRUE],
          [department |-> "IT", approver_id |-> "it_manager", is_active |-> TRUE] >>
  /\ requests = << >>
  /\ request_approvals = << >>
  /\ workflow_flow_display = << >>
  /\ documents = << >>
  /\ workflow_steps = << >>
  /\ approvals = << >>
  /\ pc = [w \in Workers |-> "idle"]
  /\ local = [w \in Workers |-> NoLocal]
  /\ response = <<0, "">>

(***************************************************************************)
(* create_user: an admin adds an account.                                  *)
(***************************************************************************)
create_user(w, actor, username) ==
  /\ pc[w] = "idle"
  /\ actor \in users
  /\ IF Role(actor) # "admin"
     THEN /\ response' = <<302, "Access denied">>
          /\ UNCHANGED users
     ELSE IF username \in users
     THEN /\ response' = <<200, "Username already exists">>
          /\ UNCHANGED users
     ELSE /\ users' = users \cup {username}
          /\ response' = <<302, "User created successfully!">>
  /\ UNCHANGED <<department_approvers, requests, request_approvals,
                 workflow_flow_display, document_tables, pc, local>>

(***************************************************************************)
(* create_request, up to its first commit: the Request row.                *)
(***************************************************************************)
\* the id the database gives the next Request row
NewRequestId ==
  IF DOMAIN requests = {} THEN 1
  ELSE (CHOOSE i \in DOMAIN requests : \A j \in DOMAIN requests : j <= i) + 1

\* the database gives no id twice: the model, which gives the id of a deleted
\* request again, waits until no handler holds it any more
IdIsFresh(rid) == \A w \in Workers : local[w].rid # rid

\* Request(department=..., submitter_id=..., department_approver_id=...)
NewRequest(actor, department, approver_id) ==
  [department |-> department,
   status |-> "pending",
   submitter_id |-> actor,
   department_approver_id |-> approver_id,
   admin_approver_id |-> Null]

create_request(w, actor, message, department) ==
  /\ pc[w] = "idle"
  /\ actor \in users
  /\ IF message = Empty \/ department = Empty
     THEN /\ response' = <<400, "Message and department are required">>
          /\ UNCHANGED <<requests, pc, local>>
     ELSE IF ActiveDepartmentApprover(department) = 0
     THEN /\ response' = <<404, "No approver found for department">>
          /\ UNCHANGED <<requests, pc, local>>
     ELSE /\ Cardinality(DOMAIN requests) < MaxRequests
          /\ IdIsFresh(NewRequestId)
          /\ LET mapping == ActiveDepartmentApprover(department)
                 approver_id == department_approvers[mapping].approver_id
                 rid == NewRequestId
             IN /\ requests' = (rid :> NewRequest(actor, department, approver_id))
                                 @@ requests
                /\ local' = [local EXCEPT ![w] =
                               [NoLocal EXCEPT !.rid = rid, !.actor = actor,
                                               !.mapping = mapping,
                                               !.department = department]]
          /\ pc' = [pc EXCEPT ![w] = "create_request_commit"]
          /\ UNCHANGED response
  /\ UNCHANGED <<users, department_approvers, request_approvals,
                 workflow_flow_display, document_tables>>

(***************************************************************************)
(* create_request, from its first commit to its second: the three          *)
(* RequestApproval rows and the four WorkflowFlowDisplay rows.             *)
(***************************************************************************)
PendingApproval(rid, approver_id, level) ==
  [request_id |-> rid, approver_id |-> approver_id,
   approval_level |-> level, action |-> "pending"]

FlowRow(rid, step_number, step_name, user_id, status) ==
  [request_id |-> rid, step_number |-> step_number, step_name |-> step_name,
   user_id |-> user_id, status |-> status]

\* the RequestApproval rows create_request adds for request rid
CreatedApprovals(rid, approver_id) ==
  (IF GeneralApprover # Null
   THEN << PendingApproval(rid, GeneralApprover, "general") >> ELSE << >>)
  \o << PendingApproval(rid, approver_id, "department") >>
  \o (IF AdminApprover # Null
      THEN << PendingApproval(rid, AdminApprover, "admin") >> ELSE << >>)

\* the WorkflowFlowDisplay rows create_request adds for request rid
CreatedFlow(rid, actor, department, approver_id) ==
  << FlowRow(rid, 0, "User (Submitter)", actor, "completed") >>
  \o (IF GeneralApprover # Null
      THEN << FlowRow(rid, 1, "General Approver", GeneralApprover, "pending") >>
      ELSE << >>)
  \o (IF approver_id \in users
      THEN << FlowRow(rid, 2, DepartmentStepName(department), approver_id,
                      "pending") >>
      ELSE << >>)
  \o (IF AdminApprover # Null
      THEN << FlowRow(rid, 3, "Admin Approver", AdminApprover, "pending") >>
      ELSE << >>)

create_request_commit(w) ==
  /\ pc[w] = "create_request_commit"
  /\ IF local[w].rid \in DOMAIN requests /\ local[w].mapping # 0
     THEN LET rid == local[w].rid
              approver_id == department_approvers[local[w].mapping].approver_id
          IN /\ request_approvals' =
                  request_approvals \o CreatedApprovals(rid, approver_id)
             /\ workflow_flow_display' =
                  workflow_flow_display
                  \o CreatedFlow(rid, local[w].actor, local[w].department,
                                 approver_id)
             /\ response' = <<200, "Request created and routed successfully">>
     ELSE \* the Request row or the DepartmentApprover row the handler holds
          \* has been deleted: the refresh of the object raises
          /\ response' = <<500, "Request creation failed">>
          /\ UNCHANGED <<request_approvals, workflow_flow_display>>
  /\ pc' = [pc EXCEPT ![w] = "idle"]
  /\ local' = [local EXCEPT ![w] = NoLocal]
  /\ UNCHANGED <<users, department_approvers, requests, document_tables>>

(***************************************************************************)
(* approve_request, up to the authorization check.                         *)
(***************************************************************************)
\* faulty variant: the general approver passes whatever the status is
ApprovalLevelIgnoringStatus(u, req) ==
  IF Role(u) = "admin" THEN "admin"
  ELSE IF u = "general_approver" THEN "general"
  ELSE IF ActiveMappingOf(u, req.department) # 0 /\ req.status = "general_approved"
  THEN "department"
  ELSE Null

\* faulty variant: the admin is let in at the admin stage only
ApprovalLevelAdminLast(u, req) ==
  IF Role(u) = "admin"
  THEN (IF req.status = "department_approved" THEN "admin" ELSE Null)
  ELSE IF u = "general_approver"
  THEN (IF req.status = "pending" THEN "general" ELSE Null)
  ELSE IF ActiveMappingOf(u, req.department) # 0 /\ req.status = "general_approved"
  THEN "department"
  ELSE Null

\* the approval_level the handler gives current_user on request req, Null
\* where can_approve stays False
ApprovalLevel(u, req) ==
  IF Role(u) = "admin" THEN "admin"
  ELSE IF u = "general_approver"
  THEN (IF req.status = "pending" THEN "general" ELSE Null)
  ELSE IF ActiveMappingOf(u, req.department) # 0 /\ req.status = "general_approved"
  THEN "department"
  ELSE Null

\* the RequestApproval rows approve_request has added to request rid
ActionsTaken(rid) ==
  Cardinality({i \in 1..Len(request_approvals) :
                 /\ request_approvals[i].request_id = rid
                 /\ request_approvals[i].action # "pending"})

\* the approve_request calls on request rid that passed the check
ActionsInFlight(rid) ==
  Cardinality({w \in Workers :
                 pc[w] = "approve_request_commit" /\ local[w].rid = rid})

approve_request(w, actor, rid, action) ==
  /\ pc[w] = "idle"
  /\ actor \in users
  /\ IF rid \notin DOMAIN requests
     THEN /\ response' = <<500, "Approval failed">>
          /\ UNCHANGED <<pc, local>>
     ELSE IF ApprovalLevel(actor, requests[rid]) = Null
     THEN /\ response' = <<403, "You are not authorized to approve this request">>
          /\ UNCHANGED <<pc, local>>
     ELSE /\ ActionsTaken(rid) + ActionsInFlight(rid) < MaxActions
          /\ pc' = [pc EXCEPT ![w] = "approve_request_commit"]
          /\ local' = [local EXCEPT ![w] =
                         [NoLocal EXCEPT
                            !.rid = rid, !.actor = actor, !.action = action,
                            !.level = ApprovalLevel(actor, requests[rid]),
                            !.status = requests[rid].status,
                            !.department_approver_id =
                               requests[rid].department_approver_id]]
          /\ UNCHANGED response
  /\ UNCHANGED tables

(***************************************************************************)
(* approve_request, from the authorization check to the commit.            *)
(***************************************************************************)
\* faulty variant: a reject below the admin level leaves the status alone
AssignedStatusRejectByAdminOnly(level, action) ==
  IF action = "approve"
  THEN (IF level = "general" THEN "general_approved"
        ELSE IF level = "department" THEN "department_approved"
        ELSE "admin_approved")
  ELSE IF action = "reject" /\ level = "admin" THEN "rejected"
  ELSE Null

\* the value the handler assigns to request_obj.status, Null for none
AssignedStatus(level, action) ==
  IF action = "approve"
  THEN (IF level = "general" THEN "general_approved"
        ELSE IF level = "department" THEN "department_approved"
        ELSE "admin_approved")
  ELSE IF action = "reject" THEN "rejected"
  ELSE Null

\* the value the handler assigns to the status of a flow row, Null for none
AssignedFlowStatus(action) ==
  IF action = "approve" THEN "approved"
  ELSE IF action = "reject" THEN "rejected"
  ELSE Null

\* the row of a table of flow rows that the lookup of a level finds, 0 for
\* None
FlowRowIn(rows, rid, level) ==
  IF level = "general"
  THEN First({i \in Ids(rows) :
                /\ rows[i].request_id = rid
                /\ rows[i].step_number = 1
                /\ rows[i].step_name = "General Approver"})
  ELSE IF level = "department"
  THEN First({i \in Ids(rows) :
                /\ rows[i].request_id = rid
                /\ rows[i].step_number = 2})
  ELSE First({i \in Ids(rows) :
                /\ rows[i].request_id = rid
                /\ rows[i].step_number = 3
                /\ rows[i].step_name = "Admin Approver"})

\* the WorkflowFlowDisplay row the handler looks up for a level, 0 for None
FlowRowOf(rid, level) == FlowRowIn(workflow_flow_display, rid, level)

\* the UPDATE of the commit: the ORM writes the columns whose assigned
\* value differs from the value it loaded
Written(loaded, assigned, stored) ==
  IF assigned # Null /\ assigned # loaded THEN assigned ELSE stored

\* the Request row after the commit of a call that loaded it as `loaded`
ApprovedRequest(req, loaded, actor, level, action) ==
  [req EXCEPT
     !.status = Written(loaded.status, AssignedStatus(level, action), @),
     !.department_approver_id =
        Written(loaded.department_approver_id,
                IF action = "approve" /\ level = "department" THEN actor ELSE Null,
                @),
     !.admin_approver_id =
        IF action = "approve" /\ level = "admin" THEN actor ELSE @]

\* RequestApproval(request_id, approver_id=current_user.id, approval_level, action)
ApprovalRecord(rid, actor, level, action) ==
  [request_id |-> rid, approver_id |-> actor,
   approval_level |-> level, action |-> action]

approve_request_commit(w) ==
  /\ pc[w] = "approve_request_commit"
  /\ IF local[w].rid \in DOMAIN requests
     THEN LET rid == local[w].rid
              actor == local[w].actor
              level == local[w].level
              action == local[w].action
              flow == FlowRowOf(rid, level)
          IN /\ request_approvals' =
                  Append(request_approvals,
                         ApprovalRecord(rid, actor, level, action))
             /\ requests' =
                  [requests EXCEPT
                     ![rid] = ApprovedRequest(@, local[w], actor, level, action)]
             /\ workflow_flow_display' =
                  IF flow # 0 /\ AssignedFlowStatus(action) # Null
                  THEN [workflow_flow_display EXCEPT
                          ![flow].status = AssignedFlowStatus(action)]
                  ELSE workflow_flow_display
             /\ response' =
                  <<200, "Request " \o local[w].action \o "d successfully">>
     ELSE \* the Request row has been deleted: the INSERT of the approval
          \* violates its foreign key
          /\ response' = <<500, "Approval failed">>
          /\ UNCHANGED <<requests, request_approvals, workflow_flow_display>>
  /\ pc' = [pc EXCEPT ![w] = "idle"]
  /\ local' = [local EXCEPT ![w] = NoLocal]
  /\ UNCHANGED <<users, department_approvers, document_tables>>

(***************************************************************************)
(* create_department_approver and delete_department_approver.              *)
(***************************************************************************)
\* UniqueConstraint('department', 'approver_id')
UniqueDepartmentApprover(department, approver_id) ==
  \A i \in 1..Len(department_approvers) :
     ~ (/\ department_approvers[i].department = department
        /\ department_approvers[i].approver_id = approver_id)

\* the create_department_approver calls that passed the checks
MappingsInFlight ==
  Cardinality({w \in Workers : pc[w] = "create_department_approver_commit"})

\* create_department_approver, up to the check for an active approver
create_department_approver(w, actor, department, approver_id) ==
  /\ pc[w] = "idle"
  /\ actor \in users
  /\ IF Role(actor) # "admin"
     THEN /\ response' = <<403, "Access denied">>
          /\ UNCHANGED <<pc, local>>
     ELSE IF department = Empty
     THEN /\ response' = <<400, "Department and approver_id are required">>
          /\ UNCHANGED <<pc, local>>
     ELSE IF approver_id \notin users
     THEN /\ response' = <<404, "User not found">>
          /\ UNCHANGED <<pc, local>>
     ELSE IF ActiveDepartmentApprover(department) # 0
     THEN /\ response' = <<400, "Department already has an approver">>
          /\ UNCHANGED <<pc, local>>
     ELSE /\ Len(department_approvers) + MappingsInFlight < MaxMappings
          /\ pc' = [pc EXCEPT ![w] = "create_department_approver_commit"]
          /\ local' = [local EXCEPT ![w] =
                         [NoLocal EXCEPT !.actor = actor,
                                         !.department = department,
                                         !.department_approver_id = approver_id]]
          /\ UNCHANGED response
  /\ UNCHANGED tables

\* create_department_approver, the INSERT and the commit
create_department_approver_commit(w) ==
  /\ pc[w] = "create_department_approver_commit"
  /\ LET department == local[w].department
         approver_id == local[w].department_approver_id
     IN IF ~ UniqueDepartmentApprover(department, approver_id)
        THEN /\ response' = <<500, "Failed to create approver">>
             /\ UNCHANGED department_approvers
        ELSE /\ department_approvers' =
                  Append(department_approvers,
                         [department |-> department, approver_id |-> approver_id,
                          is_active |-> TRUE])
             /\ response' = <<200, "Department approver created successfully">>
  /\ pc' = [pc EXCEPT ![w] = "idle"]
  /\ local' = [local EXCEPT ![w] = NoLocal]
  /\ UNCHANGED <<users, requests, request_approvals, workflow_flow_display,
                 document_tables>>

delete_department_approver(w, actor, id) ==
  /\ pc[w] = "idle"
  /\ actor \in users
  /\ IF Role(actor) # "admin"
     THEN /\ response' = <<403, "Access denied">>
          /\ UNCHANGED department_approvers
     ELSE IF id > Len(department_approvers)
     THEN /\ response' = <<500, "Failed to delete approver">>
          /\ UNCHANGED department_approvers
     ELSE /\ department_approvers' =
               [department_approvers EXCEPT ![id].is_active = FALSE]
          /\ response' = <<200, "Department approver deactivated successfully">>
  /\ UNCHANGED <<users, requests, request_approvals, workflow_flow_display,
                 document_tables, pc, local>>

(***************************************************************************)
(* The specification.                                                      *)
(***************************************************************************)
Next ==
  \E w \in Workers :
     \/ \E actor \in AdminCallers, username \in NewUsernames :
           create_user(w, actor, username)
     \/ \E actor \in Submitters, message \in {Empty, "m"},
           department \in Departments \cup {Empty} :
           create_request(w, actor, message, department)
     \/ create_request_commit(w)
     \/ \E actor \in Usernames, rid \in 1..MaxRequests, action \in Actions :
           approve_request(w, actor, rid, action)
     \/ approve_request_commit(w)
     \/ \E actor \in AdminCallers, department \in Departments \cup {Empty},
           approver_id \in ApproverCandidates :
           create_department_approver(w, actor, department, approver_id)
     \/ create_department_approver_commit(w)
     \/ \E actor \in AdminCallers, id \in 1..MaxMappings :
           delete_department_approver(w, actor, id)

Spec == Init /\ [][Next]_vars

(***************************************************************************)
(* The administration of the department approvers on its own, from the     *)
(* database as init_db leaves it at its first commit: the accounts kept,   *)
(* the department approvers cleared (DepartmentApprover.query.delete()).   *)
(***************************************************************************)
InitApprovers ==
  /\ users = Usernames
  /\ department_approvers = << >>
  /\ requests = << >>
  /\ request_approvals = << >>
  /\ workflow_flow_display = << >>
  /\ documents = << >>
  /\ workflow_steps = << >>
  /\ approvals = << >>
  /\ pc = [w \in Workers |-> "idle"]
  /\ local = [w \in Workers |-> NoLocal]
  /\ response = <<0, "">>

NextApprovers ==
  \E w \in Workers :
     \/ \E actor \in AdminCallers, department \in Departments \cup {Empty},
           approver_id \in ApproverCandidates :
           create_department_approver(w, actor, department, approver_id)
     \/ create_department_approver_commit(w)
     \/ \E actor \in AdminCallers, id \in 1..MaxMappings :
           delete_department_approver(w, actor, id)

SpecApprovers == InitApprovers /\ [][NextApprovers]_vars

(***************************************************************************)
(* new_document, up to its first commit: the Document row.                 *)
(***************************************************************************)
new_document(w, actor, title) ==
  /\ pc[w] = "idle"
  /\ actor \in users
  /\ IF title = Null
     THEN \* documents.title is NOT NULL: the commit raises
          /\ response' = <<500, "Internal Server Error">>
          /\ UNCHANGED <<documents, pc, local>>
     ELSE /\ Len(documents) < MaxDocuments
          /\ documents' = Append(documents,
                                 [status |-> "pending", submitter_id |-> actor])
          /\ pc' = [pc EXCEPT ![w] = "new_document_commit"]
          /\ local' = [local EXCEPT ![w] =
                         [NoLocal EXCEPT !.actor = actor,
                                         !.document_id = Len(documents) + 1]]
          /\ UNCHANGED response
  /\ UNCHANGED <<users, department_approvers, requests, request_approvals,
                 workflow_flow_display, workflow_steps, approvals>>

(***************************************************************************)
(* new_document, from its first commit to its second: the WorkflowStep     *)
(* rows.                                                                   *)
(***************************************************************************)
\* faulty variant: the two rows of the result need not differ
LimitTwoWithRepetition(S) ==
  IF S = {} THEN {<< >>}
  ELSE {<<a, b>> : a \in S, b \in S}

\* Query.limit(2).all() on the rows S, which the query does not order: the
\* lists it can return
LimitTwo(S) ==
  IF S = {} THEN {<< >>}
  ELSE IF Cardinality(S) = 1 THEN {<<a>> : a \in S}
  ELSE UNION {{<<a, b>> : b \in S \ {a}} : a \in S}

\* User.query.filter_by(role='approver')
ApproverUsers == {u \in users : Role(u) = "approver"}

\* WorkflowStep(document_id=..., step_order=..., approver_id=...)
NewWorkflowStep(document_id, step_order, approver_id) ==
  [document_id |-> document_id, step_order |-> step_order,
   approver_id |-> approver_id, status |-> "pending"]

\* the WorkflowStep rows new_document adds for a document
CreatedSteps(document_id, approvers) ==
  [i \in 1..Len(approvers) |-> NewWorkflowStep(document_id, i, approvers[i])]
  \o (IF AdminApprover # Null
      THEN << NewWorkflowStep(document_id, 3, AdminApprover) >> ELSE << >>)

new_document_commit(w) ==
  /\ pc[w] = "new_document_commit"
  /\ \E approvers \in LimitTwo(ApproverUsers) :
        workflow_steps' =
          workflow_steps \o CreatedSteps(local[w].document_id, approvers)
  /\ pc' = [pc EXCEPT ![w] = "idle"]
  /\ local' = [local EXCEPT ![w] = NoLocal]
  /\ response' = <<302, "Document submitted successfully!">>
  /\ UNCHANGED <<users, department_approvers, requests, request_approvals,
                 workflow_flow_display, documents, approvals>>

(***************************************************************************)
(* approve_document, up to the lookup of the pending step of current_user. *)
(***************************************************************************)
\* WorkflowStep.query.filter_by(document_id=doc_id, approver_id=u,
\*                              status='pending').first()
PendingStepOf(doc_id, u) ==
  First({i \in Ids(workflow_steps) :
           /\ workflow_steps[i].document_id = doc_id
           /\ workflow_steps[i].approver_id = u
           /\ workflow_steps[i].status = "pending"})

\* the Approval rows of document doc_id
DocumentActionsTaken(doc_id) ==
  Cardinality({i \in Ids(approvals) : approvals[i].document_id = doc_id})

\* the approve_document calls on document doc_id that found their step
DocumentActionsInFlight(doc_id) ==
  Cardinality({w \in Workers :
                 /\ pc[w] = "approve_document_commit"
                 /\ local[w].document_id = doc_id})

approve_document(w, actor, doc_id, action) ==
  /\ pc[w] = "idle"
  /\ actor \in users
  /\ IF Role(actor) \notin {"admin", "approver"}
     THEN /\ response' = <<302, "You do not have permission to approve documents">>
          /\ UNCHANGED <<pc, local>>
     ELSE IF PendingStepOf(doc_id, actor) = 0
     THEN /\ response' = <<302, "You are not authorized to approve this document">>
          /\ UNCHANGED <<pc, local>>
     ELSE /\ DocumentActionsTaken(doc_id) + DocumentActionsInFlight(doc_id)
               < MaxDocumentActions
          /\ pc' = [pc EXCEPT ![w] = "approve_document_commit"]
          /\ local' = [local EXCEPT ![w] =
                         [NoLocal EXCEPT
                            !.actor = actor, !.action = action,
                            !.document_id = doc_id,
                            !.workflow_step = PendingStepOf(doc_id, actor)]]
          /\ UNCHANGED response
  /\ UNCHANGED tables

(***************************************************************************)
(* approve_document, from the lookup of the step to the commit.            *)
(***************************************************************************)
\* WorkflowStep.query.filter_by(document_id=doc_id, status=status).count()
StepCount(steps, doc_id, status) ==
  Cardinality({i \in Ids(steps) :
                 /\ steps[i].document_id = doc_id
                 /\ steps[i].status = status})

\* the status of the document after the handler has closed a step
DocumentStatus(steps, doc_id, stored) ==
  IF StepCount(steps, doc_id, "pending") = 0
  THEN (IF StepCount(steps, doc_id, "rejected") > 0
        THEN "rejected" ELSE "approved")
  ELSE stored

\* Approval(document_id, approver_id=current_user.id, action)
NewApproval(doc_id, actor, action) ==
  [document_id |-> doc_id, approver_id |-> actor, action |-> action]

approve_document_commit(w) ==
  /\ pc[w] = "approve_document_commit"
  /\ LET doc_id == local[w].document_id
         closed == [workflow_steps EXCEPT
                      ![local[w].workflow_step].status = local[w].action]
     IN /\ approvals' =
             Append(approvals, NewApproval(doc_id, local[w].actor, local[w].action))
        /\ workflow_steps' = closed
        /\ documents' = [documents EXCEPT
                           ![doc_id].status = DocumentStatus(closed, doc_id, @)]
  /\ pc' = [pc EXCEPT ![w] = "idle"]
  /\ local' = [local EXCEPT ![w] = NoLocal]
  /\ response' = <<302, "Document " \o local[w].action \o "ed successfully!">>
  /\ UNCHANGED <<users, department_approvers, requests, request_approvals,
                 workflow_flow_display>>

(***************************************************************************)
(* archive_document.                                                       *)
(***************************************************************************)
archive_document(w, actor, doc_id) ==
  /\ pc[w] = "idle"
  /\ actor \in users
  /\ IF Role(actor) # "admin"
     THEN /\ response' = <<302, "Only administrators can archive documents">>
          /\ UNCHANGED documents
     ELSE IF doc_id \notin Ids(documents)
     THEN /\ response' = <<404, "Not Found">>
          /\ UNCHANGED documents
     ELSE /\ documents' = [documents EXCEPT ![doc_id].status = "archived"]
          /\ response' = <<302, "Document archived successfully!">>
  /\ UNCHANGED <<users, department_approvers, requests, request_approvals,
                 workflow_flow_display, workflow_steps, approvals, pc, local>>

(***************************************************************************)
(* The document workflow on its own.                                       *)
(***************************************************************************)
NextDocuments ==
  \E w \in Workers :
     \/ \E actor \in Submitters, title \in {Null, "t"} :
           new_document(w, actor, title)
     \/ new_document_commit(w)
     \/ \E actor \in Usernames, doc_id \in 1..MaxDocuments,
           action \in DocumentActions :
           approve_document(w, actor, doc_id, action)
     \/ approve_document_commit(w)
     \/ \E actor \in AdminCallers, doc_id \in 1..MaxDocuments :
           archive_document(w, actor, doc_id)

SpecDocuments == Init /\ [][NextDocuments]_vars

(***************************************************************************)
(* create_workflow_request, up to its first commit: the Request row.       *)
(***************************************************************************)
\* faulty variant: the loop without its break, which keeps the last match
ActualDepartmentWithoutBreak(steps) ==
  LET hits == {j \in Ids(steps) :
                 steps[j].department \notin {"General Approver", "Admin"}}
  IN IF hits = {} THEN Null
     ELSE steps[CHOOSE j \in hits : \A k \in hits : k <= j].department

\* the department of the first step that is neither 'General Approver' nor
\* 'Admin', Null where the loop finds none
ActualDepartment(steps) ==
  LET i == First({j \in Ids(steps) :
                    steps[j].department \notin {"General Approver", "Admin"}})
  IN IF i = 0 THEN Null ELSE steps[i].department

create_workflow_request(w, actor, title, message, steps) ==
  /\ pc[w] = "idle"
  /\ actor \in users
  /\ IF title = Empty \/ message = Empty
     THEN /\ response' = <<400, "Title and message are required">>
          /\ UNCHANGED <<requests, pc, local>>
     ELSE IF Len(steps) = 0
     THEN /\ response' = <<400, "At least one workflow step is required">>
          /\ UNCHANGED <<requests, pc, local>>
     ELSE IF ActualDepartment(steps) = Null
     THEN /\ response' = <<400, "No department specified in workflow steps">>
          /\ UNCHANGED <<requests, pc, local>>
     ELSE IF ActiveDepartmentApprover(ActualDepartment(steps)) = 0
     THEN /\ response' = <<404, "No approver found for "
                                 \o ActualDepartment(steps) \o " department">>
          /\ UNCHANGED <<requests, pc, local>>
     ELSE /\ Cardinality(DOMAIN requests) < MaxRequests
          /\ IdIsFresh(NewRequestId)
          /\ LET department == ActualDepartment(steps)
                 mapping == ActiveDepartmentApprover(department)
                 approver_id == department_approvers[mapping].approver_id
                 rid == NewRequestId
             IN /\ requests' = (rid :> NewRequest(actor, department, approver_id))
                                 @@ requests
                /\ local' = [local EXCEPT ![w] =
                               [NoLocal EXCEPT !.rid = rid, !.actor = actor,
                                               !.mapping = mapping,
                                               !.department = department,
                                               !.workflow_steps = steps]]
          /\ pc' = [pc EXCEPT ![w] = "create_workflow_request_commit"]
          /\ UNCHANGED response
  /\ UNCHANGED <<users, department_approvers, request_approvals,
                 workflow_flow_display, document_tables>>

(***************************************************************************)
(* create_workflow_request, from its first commit to its second: one       *)
(* RequestApproval row and one WorkflowFlowDisplay row per step whose      *)
(* approver is found.                                                      *)
(***************************************************************************)
\* the user whose id is n, Null where users has no such row
UserOfId(n) ==
  IF n \in 1..Len(UserIds) /\ UserIds[n] \in users THEN UserIds[n] ELSE Null

\* what a step resolves to: the level of its RequestApproval row, the value
\* the handler stores as its approver_id, and the user of its flow row.  For a
\* department step step_approver is the DepartmentApprover row, which has an
\* id of its own: the handler stores that id as the id of a user.
StepApprover(step) ==
  IF step.department = "General Approver"
  THEN [found |-> GeneralApprover # Null, approval_level |-> "general",
        approver_id |-> GeneralApprover, flow_user |-> GeneralApprover]
  ELSE IF step.department = "Admin"
  THEN [found |-> AdminApprover # Null, approval_level |-> "admin",
        approver_id |-> AdminApprover, flow_user |-> AdminApprover]
  ELSE LET mapping == ActiveDepartmentApprover(step.department)
       IN IF mapping = 0
          THEN [found |-> FALSE, approval_level |-> "department",
                approver_id |-> Null, flow_user |-> Null]
          ELSE [found |-> TRUE, approval_level |-> "department",
                approver_id |-> UserOfId(mapping),
                flow_user |-> department_approvers[mapping].approver_id]

\* the step_name of the flow row of a step
WorkflowStepName(department) ==
  IF department \in {"General Approver", "Admin"} THEN department
  ELSE DepartmentStepName(department)

\* the steps of the list whose approver is found, in list order
FoundSteps(steps) == SelectSeq(steps, LAMBDA step : StepApprover(step).found)

\* the RequestApproval rows create_workflow_request adds for request rid
CreatedWorkflowApprovals(rid, steps) ==
  [i \in 1..Len(FoundSteps(steps)) |->
     PendingApproval(rid, StepApprover(FoundSteps(steps)[i]).approver_id,
                     StepApprover(FoundSteps(steps)[i]).approval_level)]

\* the flow rows of the steps: a department step gets one where the user of
\* the mapping exists
FlowSteps(steps) ==
  SelectSeq(steps, LAMBDA step : /\ StepApprover(step).found
                                 /\ StepApprover(step).flow_user \in users)

\* the WorkflowFlowDisplay rows create_workflow_request adds for request rid
CreatedWorkflowFlow(rid, actor, steps) ==
  << FlowRow(rid, 0, "User (Submitter)", actor, "completed") >>
  \o [i \in 1..Len(FlowSteps(steps)) |->
        FlowRow(rid, FlowSteps(steps)[i].stepNumber,
                WorkflowStepName(FlowSteps(steps)[i].department),
                StepApprover(FlowSteps(steps)[i]).flow_user, "pending")]

\* request_approvals.approver_id REFERENCES users(id), NOT NULL
ApproverForeignKeys(rows) ==
  \A i \in 1..Len(rows) : rows[i].approver_id \in users

create_workflow_request_commit(w) ==
  /\ pc[w] = "create_workflow_request_commit"
  /\ LET rid == local[w].rid
         steps == local[w].workflow_steps
     IN IF ApproverForeignKeys(CreatedWorkflowApprovals(rid, steps))
        THEN /\ request_approvals' =
                  request_approvals \o CreatedWorkflowApprovals(rid, steps)
             /\ workflow_flow_display' =
                  workflow_flow_display
                  \o CreatedWorkflowFlow(rid, local[w].actor, steps)
             /\ response' = <<200, "Workflow request created successfully">>
        ELSE \* the commit raises and the transaction is rolled back
             /\ response' = <<500, "Workflow request creation failed">>
             /\ UNCHANGED <<request_approvals, workflow_flow_display>>
  /\ pc' = [pc EXCEPT ![w] = "idle"]
  /\ local' = [local EXCEPT ![w] = NoLocal]
  /\ UNCHANGED <<users, department_approvers, requests, document_tables>>

(***************************************************************************)
(* The requests with custom workflow steps on their own, from the database *)
(* after setup_approval_workflow.py and the creation of the                *)
(* general_approver account.                                               *)
(***************************************************************************)
InitWorkflow ==
  /\ users = Usernames
  /\ department_approvers =
       << [department |-> "HR", approver_id |-> "hr_manager", is_active |-> TRUE],
          [department |-> "IT", approver_id |-> "it_manager", is_active |-> TRUE] >>
  /\ requests = << >>
  /\ request_approvals = << >>
  /\ workflow_flow_display = << >>
  /\ documents = << >>
  /\ workflow_steps = << >>
  /\ approvals = << >>
  /\ pc = [w \in Workers |-> "idle"]
  /\ local = [w \in Workers |-> NoLocal]
  /\ response = <<0, "">>

NextWorkflow ==
  \E w \in Workers :
     \/ \E actor \in Submitters, title \in {Empty, "t"}, message \in {Empty, "m"},
           steps \in WorkflowStepLists :
           create_workflow_request(w, actor, title, message, steps)
     \/ create_workflow_request_commit(w)
     \/ \E actor \in Usernames, rid \in 1..MaxRequests, action \in Actions :
           approve_request(w, actor, rid, action)
     \/ approve_request_commit(w)
     \/ \E actor \in AdminCallers, id \in 1..MaxMappings :
           delete_department_approver(w, actor, id)

SpecWorkflow == InitWorkflow /\ [][NextWorkflow]_vars

(***************************************************************************)
(* get_requests: the requests the handler lists for current_user.          *)
(***************************************************************************)
\* DepartmentApprover.query.filter_by(approver_id=u, is_active=True).first()
ActiveMappingOfUser(u) ==
  First({i \in Ids(department_approvers) :
           /\ department_approvers[i].approver_id = u
           /\ department_approvers[i].is_active})

\* the ids of the requests the handler returns to u; the response carries
\* them as text
ListedRequests(u) ==
  IF Role(u) = "admin" THEN DOMAIN requests
  ELSE IF Role(u) = "approver"
  THEN (IF u = "general_approver"
        THEN {rid \in DOMAIN requests : requests[rid].status = "pending"}
        ELSE IF ActiveMappingOfUser(u) # 0
        THEN {rid \in DOMAIN requests :
                \/ requests[rid].department
                     = department_approvers[ActiveMappingOfUser(u)].department
                \/ requests[rid].department_approver_id = u}
        ELSE {})
  ELSE {rid \in DOMAIN requests : requests[rid].submitter_id = u}

get_requests(w, actor) ==
  /\ pc[w] = "idle"
  /\ actor \in users
  /\ response' = <<200, ToString(ListedRequests(actor))>>
  /\ UNCHANGED <<tables, pc, local>>

(***************************************************************************)
(* The request workflow together with the listing of the requests.         *)
(***************************************************************************)
NextListing ==
  \/ Next
  \/ \E w \in Workers, actor \in Usernames : get_requests(w, actor)

SpecListing == Init /\ [][NextListing]_vars

(***************************************************************************)
(* delete_request.                                                         *)
(***************************************************************************)
\* the flush of db.session.delete(request_obj) sets request_id of the rows of
\* Request.workflow_flow to NULL, which the column does not take
HasFlowRows(rid) ==
  \E i \in Ids(workflow_flow_display) : workflow_flow_display[i].request_id = rid

\* a table without the rows of request rid
WithoutRowsOf(rows, rid) == SelectSeq(rows, LAMBDA row : row.request_id # rid)

\* requests without the row rid
WithoutRequest(rid) == [i \in DOMAIN requests \ {rid} |-> requests[i]]

delete_request(w, actor, rid) ==
  /\ pc[w] = "idle"
  /\ actor \in users
  /\ IF Role(actor) # "admin"
     THEN /\ response' = <<403, "Access denied">>
          /\ UNCHANGED <<requests, request_approvals>>
     ELSE IF rid \notin DOMAIN requests \/ HasFlowRows(rid)
     THEN /\ response' = <<500, "Failed to delete request">>
          /\ UNCHANGED <<requests, request_approvals>>
     ELSE /\ request_approvals' = WithoutRowsOf(request_approvals, rid)
          /\ requests' = WithoutRequest(rid)
          /\ response' = <<200, "Request deleted successfully">>
  /\ UNCHANGED <<users, department_approvers, workflow_flow_display,
                 document_tables, pc, local>>

(***************************************************************************)
(* The creation, approval and deletion of requests on their own.           *)
(***************************************************************************)
NextDelete ==
  \E w \in Workers :
     \/ \E actor \in Submitters, message \in {Empty, "m"},
           department \in Departments \cup {Empty} :
           create_request(w, actor, message, department)
     \/ create_request_commit(w)
     \/ \E actor \in Usernames, rid \in 1..MaxRequests, action \in Actions :
           approve_request(w, actor, rid, action)
     \/ approve_request_commit(w)
     \/ \E actor \in AdminCallers, rid \in 1..MaxRequests :
           delete_request(w, actor, rid)

SpecDelete == Init /\ [][NextDelete]_vars

(***************************************************************************)
(* init_db (flask init-db): the department approvers are replaced, the     *)
(* sample accounts are created where missing, the requests without flow    *)
(* rows get them, and the flow rows are set from the status of their       *)
(* request.  The command is run from the command line: it is one step      *)
(* between the steps of the calls in flight.                               *)
(***************************************************************************)
\* the sample accounts of the departments modelled
InitDbUsers == {"admin", "general_approver", "hr_approver", "it_approver", "user1"}

\* the DepartmentApprover rows of the departments modelled
InitDbApprovers ==
  << [department |-> "HR", approver_id |-> "hr_approver", is_active |-> TRUE],
     [department |-> "IT", approver_id |-> "it_approver", is_active |-> TRUE] >>

\* faulty variant: the rows are created whether the request has some or not
HasNoFlowUnchecked(rows, rid) == TRUE

\* not existing_flow: the table has no row of request rid
HasNoFlow(rows, rid) == \A i \in 1..Len(rows) : rows[i].request_id # rid

\* User.query.filter_by(role='admin').first() among the accounts usrs
FirstAdmin(usrs) ==
  IF \E u \in usrs : Role(u) = "admin"
  THEN CHOOSE u \in usrs : Role(u) = "admin"
  ELSE Null

\* the flow rows init_db creates for a request that has none
BackfillRows(usrs, rid, req) ==
  (IF req.submitter_id \in usrs
   THEN {FlowRow(rid, 0, "User (Submitter)", req.submitter_id, "completed")}
   ELSE {})
  \cup (IF "general_approver" \in usrs
        THEN {FlowRow(rid, 1, "General Approver", "general_approver",
                      IF req.status = "pending" THEN "pending" ELSE "approved")}
        ELSE {})
  \cup (IF req.department_approver_id # Null /\ req.department_approver_id \in usrs
        THEN {FlowRow(rid, 2, DepartmentStepName(req.department),
                      req.department_approver_id,
                      IF req.status \in {"pending", "general_approved"}
                      THEN "pending" ELSE "approved")}
        ELSE {})
  \cup (IF FirstAdmin(usrs) # Null
        THEN {FlowRow(rid, 3, "Admin Approver", FirstAdmin(usrs),
                      IF req.status \in {"pending", "general_approved",
                                         "department_approved"}
                      THEN "pending" ELSE "approved")}
        ELSE {})

\* rows of distinct (request, step), by request id and step number
InOrder(S) ==
  LET before(r) == {q \in S : \/ q.request_id < r.request_id
                              \/ /\ q.request_id = r.request_id
                                 /\ q.step_number < r.step_number}
  IN [i \in 1..Cardinality(S) |->
        CHOOSE r \in S : Cardinality(before(r)) = i - 1]

\* the table after the first loop over Request.query.all()
BackfillCreated(reqs, usrs, rows) ==
  rows \o InOrder(UNION {IF HasNoFlow(rows, rid)
                         THEN BackfillRows(usrs, rid, reqs[rid])
                         ELSE {} : rid \in DOMAIN reqs})

\* the status the second loop leaves in the flow row of a level
BackfilledStatus(level, status, stored) ==
  IF status = "rejected" THEN "rejected"
  ELSE IF level = "general"
  THEN (IF status \in {"general_approved", "department_approved", "admin_approved"}
        THEN "approved" ELSE stored)
  ELSE IF level = "department"
  THEN (IF status \in {"department_approved", "admin_approved"}
        THEN "approved" ELSE stored)
  ELSE (IF status = "admin_approved" THEN "approved" ELSE stored)

\* the table after the second loop
BackfillUpdated(reqs, rows) ==
  [i \in 1..Len(rows) |->
     LET rid == rows[i].request_id
         levels == {level \in {"general", "department", "admin"} :
                      FlowRowIn(rows, rid, level) = i}
     IN IF rid \in DOMAIN reqs /\ levels # {}
        THEN [rows[i] EXCEPT
                !.status = BackfilledStatus(CHOOSE level \in levels : TRUE,
                                            reqs[rid].status, @)]
        ELSE rows[i]]

\* the WorkflowFlowDisplay table as init_db leaves it
Backfilled(reqs, usrs, rows) ==
  BackfillUpdated(reqs, BackfillCreated(reqs, usrs, rows))

init_db ==
  /\ department_approvers' = InitDbApprovers
  /\ users' = users \cup InitDbUsers
  /\ workflow_flow_display' =
       Backfilled(requests, users \cup InitDbUsers, workflow_flow_display)
  \* the DepartmentApprover rows that calls in flight loaded are deleted
  /\ local' = [w \in Workers |-> [local[w] EXCEPT !.mapping = 0]]
  /\ UNCHANGED <<requests, request_approvals, document_tables, pc, response>>

\* the accounts that call approve_request beside an init_db
BackfillActors == {"admin", "general_approver", "it_manager", "it_approver"}

NextBackfill ==
  \/ \E w \in Workers :
        \/ \E actor \in Submitters, message \in {Empty, "m"},
              department \in Departments \cup {Empty} :
              create_request(w, actor, message, department)
        \/ create_request_commit(w)
        \/ \E actor \in BackfillActors, rid \in 1..MaxRequests,
              action \in Actions :
              approve_request(w, actor, rid, action)
        \/ approve_request_commit(w)
  \/ init_db

SpecBackfill == InitWorkflow /\ [][NextBackfill]_vars

(***************************************************************************)
(* The request workflow under fair scheduling: a handler that has started  *)
(* runs to its commit, and an admin keeps calling approve_request on a     *)
(* request that is not closed.  The other actors leave the last action of  *)
(* the bound to the admin.                                                 *)
(***************************************************************************)
\* an admin calls approve_request on request rid, which is not closed
AdminActs(rid) ==
  \E w \in Workers, actor \in users, action \in Actions :
     /\ Role(actor) = "admin"
     /\ rid \in DOMAIN requests
     /\ requests[rid].status \in {"pending", "general_approved",
                                  "department_approved"}
     /\ approve_request(w, actor, rid, action)

\* an approver other than the admin calls approve_request on request rid
ApproverActs(rid) ==
  \E w \in Workers, actor \in users, action \in Actions :
     /\ Role(actor) # "admin"
     /\ ActionsTaken(rid) + ActionsInFlight(rid) + 1 < MaxActions
     /\ approve_request(w, actor, rid, action)

NextProgress ==
  \/ \E w \in Workers :
        \/ \E actor \in Submitters, department \in Departments :
              create_request(w, actor, "m", department)
        \/ create_request_commit(w)
        \/ approve_request_commit(w)
        \/ \E actor \in AdminCallers, id \in 1..MaxMappings :
              delete_department_approver(w, actor, id)
  \/ \E rid \in 1..MaxRequests : AdminActs(rid)
  \/ \E rid \in 1..MaxRequests : ApproverActs(rid)

SpecProgress ==
  /\ InitWorkflow
  /\ [][NextProgress]_vars
  /\ \A w \in Workers : WF_vars(create_request_commit(w))
  /\ \A w \in Workers : WF_vars(approve_request_commit(w))
  /\ \A rid \in 1..MaxRequests : SF_vars(AdminActs(rid))

(***************************************************************************)
(* Vocabulary of the properties.                                           *)
(***************************************************************************)
NonTerminal == {"pending", "general_approved", "department_approved"}

Terminal == {"admin_approved", "rejected"}

\* the position of a status on pending -> general_approved -> department_approved
\* -> admin_approved
Rank(status) ==
  IF status = "pending" THEN 0
  ELSE IF status = "general_approved" THEN 1
  ELSE IF status = "department_approved" THEN 2
  ELSE 3

Successor(status) ==
  IF status = "pending" THEN "general_approved"
  ELSE IF status = "general_approved" THEN "department_approved"
  ELSE "admin_approved"

\* worker w commits an approve_request call in this step
Commits(w) == pc[w] = "approve_request_commit" /\ pc'[w] = "idle"

\* worker w commits an approve_request call in this step, and no other call
\* has changed the status of the request since w read it
CommitsUnraced(w) ==
  Commits(w) /\ local[w].status = requests[local[w].rid].status

\* department has a DepartmentApprover row with is_active = true
HasActiveApprover(department) ==
  \E i \in 1..Len(department_approvers) :
     /\ department_approvers[i].department = department
     /\ department_approvers[i].is_active

\* u holds an active DepartmentApprover mapping for department
IsActiveApproverOf(u, department) ==
  \E i \in 1..Len(department_approvers) :
     /\ department_approvers[i].department = department
     /\ department_approvers[i].approver_id = u
     /\ department_approvers[i].is_active

\* the actor the workflow expects at the stage of req, or an admin
StageAuthorized(u, req) ==
  \/ Role(u) = "admin"
  \/ req.status = "pending" /\ u = "general_approver"
  \/ req.status = "general_approved" /\ IsActiveApproverOf(u, req.department)

\* the rows of request rid in a table
RowsOf(rows, rid) == SelectSeq(rows, LAMBDA row : row.request_id = rid)

NotAuthorized == <<403, "You are not authorized to approve this request">>

NoApproverFound == <<404, "No approver found for department">>

(***************************************************************************)
(* C1: along any sequence of approve_request calls the status of a request *)
(* only moves forward on pending -> general_approved -> department_approved*)
(* -> admin_approved, or from a non-terminal status to rejected; it never  *)
(* leaves admin_approved or rejected.                                      *)
(***************************************************************************)
C1_StatusOnlyMovesForward ==
  [][\A w \in Workers :
       CommitsUnraced(w) =>
         LET old == requests[local[w].rid].status
             new == requests'[local[w].rid].status
         IN \/ new = old
            \/ old \in NonTerminal /\ new = "rejected"
            \/ old \in NonTerminal /\ new # "rejected" /\ Rank(new) > Rank(old)]_vars

(***************************************************************************)
(* C2: an approve_request call on a request whose status is admin_approved *)
(* or rejected fails for every actor, an admin included, and changes no    *)
(* row.                                                                    *)
(***************************************************************************)
C2_ClosedRequestRefusesEveryActor ==
  [][\A w \in Workers, actor \in Usernames, rid \in 1..MaxRequests,
        action \in Actions :
       (/\ rid \in DOMAIN requests
        /\ requests[rid].status \in Terminal
        /\ approve_request(w, actor, rid, action))
       => /\ pc'[w] = "idle"
          /\ response'[1] >= 400
          /\ UNCHANGED tables]_vars

(***************************************************************************)
(* C3: every successful approve moves the status to its immediate          *)
(* successor, whoever the authorized actor is.                             *)
(***************************************************************************)
C3_ApproveMovesToSuccessor ==
  [][\A w \in Workers :
       (/\ CommitsUnraced(w)
        /\ local[w].action = "approve"
        /\ requests[local[w].rid].status \in NonTerminal)
       => requests'[local[w].rid].status
            = Successor(requests[local[w].rid].status)]_vars

(***************************************************************************)
(* C4: of two concurrent approve_request calls that read a request at the  *)
(* same stage only one succeeds: a call that commits after another call    *)
(* has moved the request off the stage it read gets an error and writes    *)
(* neither an approval row nor the status.                                 *)
(***************************************************************************)
C4_RacedCallDoesNotSucceed ==
  [][\A w \in Workers :
       (/\ Commits(w)
        /\ local[w].status \in NonTerminal
        /\ local[w].status # requests[local[w].rid].status)
       => /\ response'[1] >= 400
          /\ requests' = requests
          /\ request_approvals' = request_approvals]_vars

(***************************************************************************)
(* C5: a call of a non-admin actor passes the authorization check only if, *)
(* at the time of the call, the status is pending and the actor is the     *)
(* general_approver account, or the status is general_approved and the     *)
(* actor holds an active DepartmentApprover mapping for the department of  *)
(* the request.                                                            *)
(***************************************************************************)
C5_StageAuthorization ==
  [][\A w \in Workers :
       (/\ pc[w] = "idle"
        /\ pc'[w] = "approve_request_commit"
        /\ Role(local'[w].actor) # "admin")
       => LET actor == local'[w].actor
              req == requests[local'[w].rid]
          IN /\ req.status \in {"pending", "general_approved"}
             /\ req.status = "pending" => actor = "general_approver"
             /\ req.status = "general_approved"
                  => IsActiveApproverOf(actor, req.department)]_vars

\* hr_manager, made the approver of IT after it_manager was deactivated,
\* passes the check on an IT request
C5_Witness ==
  \E w \in Workers :
     /\ pc[w] = "approve_request_commit"
     /\ local[w].actor = "hr_manager"
     /\ local[w].level = "department"
     /\ requests[local[w].rid].department = "IT"
     /\ ~ IsActiveApproverOf("it_manager", "IT")

(***************************************************************************)
(* C6: an approve_request call by an actor who is not authorized for the   *)
(* current stage of the request is answered 403 and changes no row of any  *)
(* table.                                                                  *)
(***************************************************************************)
C6_UnauthorizedCallChangesNothing ==
  [][\A w \in Workers, actor \in Usernames, rid \in 1..MaxRequests,
        action \in Actions :
       (/\ rid \in DOMAIN requests
        /\ requests[rid].status \in NonTerminal
        /\ ~ StageAuthorized(actor, requests[rid])
        /\ approve_request(w, actor, rid, action))
       => /\ response' = NotAuthorized
          /\ UNCHANGED <<tables, pc, local>>]_vars

\* a call on a general_approved request has been refused
C6_Witness ==
  /\ response = NotAuthorized
  /\ \E rid \in DOMAIN requests : requests[rid].status = "general_approved"
  /\ \A w \in Workers : pc[w] = "idle"

(***************************************************************************)
(* C7: no state shows a Request without its three RequestApproval rows and *)
(* its four WorkflowFlowDisplay rows.                                      *)
(***************************************************************************)
C7_NoPartialRequest ==
  \A rid \in DOMAIN requests :
     /\ {"general", "department", "admin"} \subseteq
          {RowsOf(request_approvals, rid)[i].approval_level :
             i \in 1..Len(RowsOf(request_approvals, rid))}
     /\ {RowsOf(workflow_flow_display, rid)[i].step_number :
           i \in 1..Len(RowsOf(workflow_flow_display, rid))} = 0..3

(***************************************************************************)
(* C8: create_request for a department without an active DepartmentApprover*)
(* is answered 404 and creates no row.                                     *)
(***************************************************************************)
C8_NoApproverNoRows ==
  [][\A w \in Workers, actor \in Submitters, department \in Departments :
       (/\ ~ HasActiveApprover(department)
        /\ create_request(w, actor, "m", department))
       => /\ response' = NoApproverFound
          /\ UNCHANGED <<tables, pc, local>>]_vars

\* a create_request was refused for a department whose approver was
\* deactivated, and there is no row
C8_Witness ==
  /\ response = NoApproverFound
  /\ \E department \in Departments :
        /\ ~ HasActiveApprover(department)
        /\ \E i \in 1..Len(department_approvers) :
              department_approvers[i].department = department
  /\ requests = << >>
  /\ request_approvals = << >>
  /\ workflow_flow_display = << >>

(***************************************************************************)
(* C9: create_request fails and creates no row when the general_approver   *)
(* account or every admin account is missing.                              *)
(***************************************************************************)
C9_MissingAccountFailsCreation ==
  [][\A w \in Workers, actor \in Submitters, department \in Departments :
       (/\ \/ "general_approver" \notin users
           \/ ~ \E u \in users : Role(u) = "admin"
        /\ create_request(w, actor, "m", department))
       => /\ response'[1] >= 400
          /\ UNCHANGED <<tables, pc, local>>]_vars

(***************************************************************************)
(* C10: when create_request succeeds the request is pending, has exactly   *)
(* three RequestApproval rows, pending, of the levels general, department  *)
(* and admin in this order, and exactly four WorkflowFlowDisplay rows of   *)
(* the steps 0 to 3, step 0 completed and the others pending.              *)
(***************************************************************************)
C10_CreatedRequestIsComplete ==
  [][\A w \in Workers :
       (pc[w] = "create_request_commit" /\ pc'[w] = "idle") =>
         LET rid == local[w].rid
             approval_rows == RowsOf(request_approvals', rid)
             flow == RowsOf(workflow_flow_display', rid)
         IN /\ requests'[rid].status = "pending"
            /\ [i \in 1..Len(approval_rows) |-> approval_rows[i].approval_level]
                 = <<"general", "department", "admin">>
            /\ \A i \in 1..Len(approval_rows) : approval_rows[i].action = "pending"
            /\ IsActiveApproverOf(approval_rows[2].approver_id,
                                  requests[rid].department)
            /\ [i \in 1..Len(flow) |-> flow[i].step_number] = <<0, 1, 2, 3>>
            /\ [i \in 1..Len(flow) |-> flow[i].status]
                 = <<"completed", "pending", "pending", "pending">>]_vars

(***************************************************************************)
(* C11: a successful approve or reject overwrites the pending              *)
(* RequestApproval row of its stage in place and never adds a row, so that *)
(* a request keeps exactly one row per stage.                              *)
(***************************************************************************)
C11_CommitOverwritesPendingRow ==
  [][\A w \in Workers :
       Commits(w) =>
         /\ Len(request_approvals') = Len(request_approvals)
         /\ \A i \in 1..Len(request_approvals) :
               (/\ request_approvals[i].request_id = local[w].rid
                /\ request_approvals[i].approval_level = local[w].level
                /\ request_approvals[i].action = "pending")
               => request_approvals'[i].action = local[w].action]_vars

C13_AtMostOneActiveApprover ==
  \A department \in Departments :
     Cardinality({i \in 1..Len(department_approvers) :
                    /\ department_approvers[i].department = department
                    /\ department_approvers[i].is_active}) <= 1

(***************************************************************************)
(* C14: once the active mapping of a department has been deactivated, a    *)
(* create_department_approver call for the department succeeds for every   *)
(* existing user, the user of the deactivated mapping included, and leaves *)
(* the department with exactly one active mapping and the deactivated row  *)
(* in the table.                                                           *)
(***************************************************************************)
C14_CreateAfterDeactivationSucceeds ==
  [][\A w \in Workers :
       (/\ pc[w] = "create_department_approver_commit"
        /\ pc'[w] = "idle"
        /\ ~ HasActiveApprover(local[w].department)
        /\ \E i \in 1..Len(department_approvers) :
              department_approvers[i].department = local[w].department)
       => /\ response'[1] = 200
          /\ Cardinality({i \in 1..Len(department_approvers') :
                            /\ department_approvers'[i].department
                                 = local[w].department
                            /\ department_approvers'[i].is_active}) = 1
          /\ SubSeq(department_approvers', 1, Len(department_approvers))
               = department_approvers]_vars

\* the rows of document doc_id in a table
RowsOfDocument(rows, doc_id) ==
  SelectSeq(rows, LAMBDA row : row.document_id = doc_id)

\* a step of document doc_id was closed by a reject: approve_document stores
\* the posted action as the status of the step
HasRejectedStep(doc_id) ==
  \E i \in 1..Len(workflow_steps) :
     /\ workflow_steps[i].document_id = doc_id
     /\ workflow_steps[i].status = "reject"

\* document doc_id has steps and none of them is pending
AllStepsClosed(doc_id) ==
  /\ \E i \in 1..Len(workflow_steps) : workflow_steps[i].document_id = doc_id
  /\ \A i \in 1..Len(workflow_steps) :
        workflow_steps[i].document_id = doc_id
          => workflow_steps[i].status # "pending"

(***************************************************************************)
(* C15: a document is approved only when none of its steps is pending and  *)
(* none was closed by a reject; a document with a rejected step is never   *)
(* approved and is rejected once its steps are closed.                     *)
(***************************************************************************)
C15_ApprovedOnlyWithoutReject ==
  \A doc_id \in 1..Len(documents) :
     /\ documents[doc_id].status = "approved"
          => AllStepsClosed(doc_id) /\ ~ HasRejectedStep(doc_id)
     /\ (/\ AllStepsClosed(doc_id)
         /\ HasRejectedStep(doc_id)
         /\ documents[doc_id].status # "archived")
          => documents[doc_id].status = "rejected"

(***************************************************************************)
(* C16: archived is terminal: no step changes the status of a document     *)
(* that archive_document has archived.                                     *)
(***************************************************************************)
C16_ArchivedIsTerminal ==
  [][\A doc_id \in 1..Len(documents) :
       documents[doc_id].status = "archived"
         => documents'[doc_id].status = "archived"]_vars

C18_OneApprovalPerClosedStep ==
  \A doc_id \in 1..Len(documents) :
     Len(RowsOfDocument(approvals, doc_id))
       = Cardinality({i \in 1..Len(workflow_steps) :
                        /\ workflow_steps[i].document_id = doc_id
                        /\ workflow_steps[i].status # "pending"})

\* the entries of a step list that name a department
DepartmentSteps(steps) ==
  SelectSeq(steps, LAMBDA step : step.department \in Departments)

(***************************************************************************)
(* C19: create_workflow_request refuses a step list without a department   *)
(* step, and a list whose first department step has no active approver,    *)
(* and creates no row; when it succeeds the department of the request is   *)
(* the department of the first department step of the list.                *)
(***************************************************************************)
C19_WorkflowRequestNeedsDepartmentStep ==
  [][\A w \in Workers, actor \in Submitters, steps \in WorkflowStepLists :
       create_workflow_request(w, actor, "t", "m", steps) =>
         IF \/ DepartmentSteps(steps) = << >>
            \/ ~ HasActiveApprover(DepartmentSteps(steps)[1].department)
         THEN /\ response'[1] \in {400, 404}
              /\ UNCHANGED <<tables, pc, local>>
         ELSE /\ pc'[w] = "create_workflow_request_commit"
              /\ requests'[local'[w].rid].department
                   = DepartmentSteps(steps)[1].department]_vars

\* a list whose first department step is IT was refused after the approver of
\* IT was deactivated, and there is no row
C19_Witness ==
  /\ response = <<404, "No approver found for IT department">>
  /\ ~ HasActiveApprover("IT")
  /\ requests = << >>
  /\ request_approvals = << >>
  /\ workflow_flow_display = << >>

(***************************************************************************)
(* C20: the stages of a request created by create_workflow_request, and    *)
(* the actor of each, are those of its step list in list order: on a       *)
(* request whose list starts with a department step and on which nobody    *)
(* has acted, the approver of that department is the one to act.           *)
(***************************************************************************)
C20_FirstListedStageActs ==
  [][\A w \in Workers, actor \in Usernames, rid \in 1..MaxRequests,
        action \in Actions :
       (/\ rid \in DOMAIN requests
        /\ requests[rid].status = "pending"
        /\ RowsOf(request_approvals, rid) # << >>
        /\ RowsOf(request_approvals, rid)[1].approval_level = "department"
        /\ \A i \in 1..Len(RowsOf(request_approvals, rid)) :
              RowsOf(request_approvals, rid)[i].action = "pending"
        /\ IsActiveApproverOf(actor, requests[rid].department)
        /\ approve_request(w, actor, rid, action))
       => pc'[w] = "approve_request_commit"]_vars

(***************************************************************************)
(* C21: get_requests returns every request to an admin, the pending        *)
(* requests to the general_approver account, to a department approver the  *)
(* requests of the departments they are the active approver of, and to a   *)
(* regular user the requests they submitted.                               *)
(***************************************************************************)
C21_ListingIsScopedByRole ==
  [][\A w \in Workers, actor \in Usernames :
       get_requests(w, actor) =>
         response'[2] = ToString(
           IF Role(actor) = "admin" THEN DOMAIN requests
           ELSE IF actor = "general_approver"
           THEN {rid \in DOMAIN requests : requests[rid].status = "pending"}
           ELSE IF Role(actor) = "approver"
           THEN {rid \in DOMAIN requests :
                   IsActiveApproverOf(actor, requests[rid].department)}
           ELSE {rid \in DOMAIN requests :
                   requests[rid].submitter_id = actor})]_vars

(***************************************************************************)
(* C22: delete_request by a non-admin is denied and removes nothing; by an *)
(* admin it removes the Request and all of its RequestApproval rows.       *)
(***************************************************************************)
C22_AdminDeleteRemovesRequest ==
  [][\A w \in Workers, actor \in AdminCallers, rid \in 1..MaxRequests :
       (rid \in DOMAIN requests /\ delete_request(w, actor, rid)) =>
         IF Role(actor) = "admin"
         THEN /\ rid \notin DOMAIN requests'
              /\ RowsOf(request_approvals', rid) = << >>
         ELSE /\ response'[1] = 403
              /\ UNCHANGED tables]_vars

\* the status of the WorkflowFlowDisplay row of a step of request rid, Null
\* where the request has no such row
FlowStatusIn(rows, rid, step_number) ==
  LET hits == {i \in 1..Len(rows) :
                 /\ rows[i].request_id = rid
                 /\ rows[i].step_number = step_number}
  IN IF hits = {} THEN Null ELSE rows[CHOOSE i \in hits : TRUE].status

FlowStatus(rid, step_number) ==
  FlowStatusIn(workflow_flow_display, rid, step_number)

\* request rid has the flow rows of the steps 0 to 3, one of each, step 1
\* being the step of the general approver
HasFullProjection(rid) ==
  /\ Len(RowsOf(workflow_flow_display, rid)) = 4
  /\ \A step_number \in 0..3 : FlowStatus(rid, step_number) # Null
  /\ \E i \in 1..Len(workflow_flow_display) :
        /\ workflow_flow_display[i].request_id = rid
        /\ workflow_flow_display[i].step_number = 1
        /\ workflow_flow_display[i].step_name = "General Approver"

\* the flow steps that a status says were approved
StepsBehind(status) ==
  IF status = "general_approved" THEN {1}
  ELSE IF status = "department_approved" THEN {1, 2}
  ELSE IF status = "admin_approved" THEN {1, 2, 3}
  ELSE {}

(***************************************************************************)
(* C23: the projection is kept in sync by every successful approval: on a  *)
(* request with the flow rows of the steps General Approver, department    *)
(* and Admin numbered 1 to 3, after the approval the status                *)
(* general_approved has the flow row of step 1 approved,                   *)
(* department_approved those of the steps 1 and 2, admin_approved those of *)
(* the steps 1, 2 and 3.                                                   *)
(***************************************************************************)
C23_ProjectionFollowsStatus ==
  [][\A w \in Workers :
       (/\ Commits(w)
        /\ local[w].action = "approve"
        /\ local[w].rid \in DOMAIN requests
        /\ HasFullProjection(local[w].rid))
       => \A step_number \in StepsBehind(requests'[local[w].rid].status) :
             FlowStatusIn(workflow_flow_display', local[w].rid,
                          step_number) = "approved"]_vars

(***************************************************************************)
(* C24: a successful reject marks the flow row of the stage implied by the *)
(* status the request had before the call (step 1 for pending, step 2 for  *)
(* general_approved, step 3 for department_approved) rejected and leaves   *)
(* the rows of the other stages as they were, later ones pending and       *)
(* earlier ones approved, whoever the rejecting actor is.                  *)
(***************************************************************************)
C24_RejectMarksCurrentStage ==
  [][\A w \in Workers :
       (/\ CommitsUnraced(w)
        /\ local[w].action = "reject"
        /\ local[w].status \in NonTerminal
        /\ HasFullProjection(local[w].rid))
       => \A step_number \in 1..3 :
             FlowStatusIn(workflow_flow_display', local[w].rid, step_number)
             = IF step_number = Rank(local[w].status) + 1
               THEN "rejected"
               ELSE FlowStatus(local[w].rid, step_number)]_vars

\* the user a step's approver resolves to: the general_approver account,
\* the first admin, or the user of the department's active mapping
ResolvedApprover(step) ==
  IF step.department = "General Approver" THEN GeneralApprover
  ELSE IF step.department = "Admin" THEN AdminApprover
  ELSE department_approvers[ActiveDepartmentApprover(step.department)].approver_id

(***************************************************************************)
(* C25: a create_workflow_request that succeeds gives the RequestApproval  *)
(* row of every step whose approver is resolved that approver as its       *)
(* approver_id, and the flow row created for the same step is assigned to  *)
(* the same user.                                                          *)
(***************************************************************************)
C25_StepApproverIsResolvedUser ==
  [][\A w \in Workers :
       (/\ pc[w] = "create_workflow_request_commit"
        /\ pc'[w] = "idle"
        /\ response'[1] = 200)
       => LET rid == local[w].rid
              found == FoundSteps(local[w].workflow_steps)
              created == RowsOf(request_approvals', rid)
          IN /\ Len(created) = Len(found)
             /\ \A i \in 1..Len(found) :
                   /\ created[i].approver_id = ResolvedApprover(found[i])
                   /\ \A j \in 1..Len(workflow_flow_display') :
                         (/\ workflow_flow_display'[j].request_id = rid
                          /\ workflow_flow_display'[j].step_number
                               = found[i].stepNumber)
                         => workflow_flow_display'[j].user_id
                              = created[i].approver_id]_vars

\* the number of rows of a step of a request in a table of flow rows
FlowCount(rows, rid, step_number) ==
  Cardinality({i \in 1..Len(rows) : /\ rows[i].request_id = rid
                                     /\ rows[i].step_number = step_number})

(***************************************************************************)
(* C26: the backfill of init_db is idempotent: run again on the tables it  *)
(* leaves, it leaves the WorkflowFlowDisplay table as it is, and it adds   *)
(* no row for a (request, step) that has one.                              *)
(***************************************************************************)
C26_BackfillIsIdempotent ==
  [][init_db =>
       /\ Backfilled(requests', users', workflow_flow_display')
            = workflow_flow_display'
       /\ \A rid \in DOMAIN requests, step_number \in 0..3 :
             FlowCount(workflow_flow_display, rid, step_number) >= 1
             => FlowCount(workflow_flow_display', rid, step_number)
                  = FlowCount(workflow_flow_display, rid, step_number)]_vars

\* init_db has given its flow rows to a request whose create_request was
\* between its two commits
C26_Witness ==
  /\ "it_approver" \in users
  /\ \E rid \in DOMAIN requests :
        /\ HasFullProjection(rid)
        /\ RowsOf(request_approvals, rid) = << >>

(***************************************************************************)
(* C27: init_db leaves the flow rows that create_request and               *)
(* approve_request maintained as they are: for a request with its pending  *)
(* RequestApproval rows and its four flow rows, in any status, the         *)
(* statuses the backfill derives are those the engine wrote.               *)
(***************************************************************************)
C27_BackfillAgreesWithEngine ==
  [][init_db =>
       \A rid \in DOMAIN requests :
          (/\ HasFullProjection(rid)
           /\ \E i \in 1..Len(request_approvals) :
                 /\ request_approvals[i].request_id = rid
                 /\ request_approvals[i].action = "pending"
           /\ \A w \in Workers : local[w].rid # rid)
          => RowsOf(workflow_flow_display', rid)
               = RowsOf(workflow_flow_display, rid)]_vars

(***************************************************************************)
(* C28: a rejection is not lost to a race: an approve_request call that    *)
(* read the request before a reject of it committed does not overwrite the *)
(* status rejected when it commits.                                        *)
(***************************************************************************)
C28_RejectionSurvivesRace ==
  [][\A w \in Workers :
       (/\ Commits(w)
        /\ local[w].action = "approve"
        /\ local[w].status \in NonTerminal
        /\ local[w].rid \in DOMAIN requests
        /\ requests[local[w].rid].status = "rejected")
       => requests'[local[w].rid].status = "rejected"]_vars

\* request rid is open and the bound leaves an action to take on it
OpenRequest(rid) ==
  /\ rid \in DOMAIN requests
  /\ requests[rid].status \in NonTerminal
  /\ ActionsTaken(rid) + ActionsInFlight(rid) < MaxActions

C30_StepsCloseInOrder ==
  \A i, j \in 1..Len(workflow_steps) :
     (/\ workflow_steps[i].document_id = workflow_steps[j].document_id
      /\ workflow_steps[i].step_order < workflow_steps[j].step_order
      /\ workflow_steps[i].status = "pending")
     => workflow_steps[j].status = "pending"

====
